---- MODULE Spec2Model ----
(***************************************************************************)
(* A model of the JSON tokenizer (src/src/tokenize.rs) and of the         *)
(* recursive-descent parser with its unescape routine (src/src/parse.rs). *)
(*                                                                         *)
(* Characters are Unicode code points (naturals).  Cursors are 0-based as *)
(* in the source, so the character under cursor i is chars[i + 1].  An    *)
(* out-of-range slice read is a Rust panic: it is the outcome "Panic",    *)
(* distinct from every Ok and Err value.                                   *)
(***************************************************************************)
EXTENDS Integers, Sequences, FiniteSets, TLC

VARIABLES
    chars,        \* tokenize: the input as a vector of chars
    index,        \* tokenize: the character cursor
    tokens,       \* tokenize: the token vector built so far
    tok_result,   \* tokenize: what the call returned, or Running
    u_input,      \* unescape_string: the raw text
    u_pos,        \* unescape_string: how many chars the iterator has yielded
    u_output,     \* unescape_string: the output string
    u_escaping,   \* unescape_string: is_escaping
    u_result,     \* unescape_string: what the call returned, or running
    p_tokens,     \* parse_tokens: the token slice
    p_index,      \* parse_tokens: the token cursor shared by all nested calls
    p_stack,      \* the parse_array / parse_object calls in progress, innermost last
    p_pc,         \* where the innermost call stands
    p_result      \* what the outermost parse_tokens returned, or running

tok_vars == <<chars, index, tokens, tok_result>>
u_vars == <<u_input, u_pos, u_output, u_escaping, u_result>>
p_vars == <<p_tokens, p_index, p_stack, p_pc, p_result>>
vars == <<tok_vars, u_vars, p_vars>>

----------------------------------------------------------------------------
(* Bounds of the model *)

\* pieces (single characters, keywords and keyword prefixes) per tokenizer input
MaxPieces == 3
\* characters per input of the string-literal specification
MaxStrLen == 5
\* characters per raw text of the single-character-escape specification
MaxEscLen == 3
\* characters per raw text of the \u-escape specification
MaxHexLen == 6
\* tokens per token slice given to the parser
MaxTokens == 5

----------------------------------------------------------------------------
(* Characters *)

Ord(c) ==
    CASE c = "\t" -> 9   [] c = "\n" -> 10  [] c = "\f" -> 12  [] c = "\r" -> 13
      [] c = " "  -> 32  [] c = "\"" -> 34  [] c = ","  -> 44  [] c = "."  -> 46
      [] c = "0"  -> 48  [] c = "1"  -> 49  [] c = "2"  -> 50  [] c = "4"  -> 52
      [] c = "8"  -> 56  [] c = "9"  -> 57  [] c = ":"  -> 58
      [] c = "A"  -> 65  [] c = "D"  -> 68  [] c = "F"  -> 70  [] c = "G"  -> 71
      [] c = "["  -> 91  [] c = "\\" -> 92  [] c = "]"  -> 93
      [] c = "a"  -> 97  [] c = "b"  -> 98  [] c = "e"  -> 101 [] c = "f"  -> 102
      [] c = "k"  -> 107 [] c = "l"  -> 108 [] c = "n"  -> 110 [] c = "q"  -> 113
      [] c = "r"  -> 114 [] c = "s"  -> 115 [] c = "t"  -> 116 [] c = "u"  -> 117
      [] c = "x"  -> 120 [] c = "{"  -> 123 [] c = "}"  -> 125

\* a sequence of one-character strings as a sequence of code points
Str(s) == [i \in 1..Len(s) |-> Ord(s[i])]

\* char::is_ascii_whitespace: U+0020, U+0009, U+000A, U+000C, U+000D
is_ascii_whitespace(c) == c \in {32, 9, 10, 12, 13}

\* char::is_ascii_digit: '0'..='9'
is_ascii_digit(c) == c \in 48..57

----------------------------------------------------------------------------
(* Tokens and results of the tokenizer *)

\* enum Token; num is the payload of Number, str the payload of String
Token(type) == [type |-> type, num |-> <<>>, str |-> <<>>]
NumberToken(f) == [type |-> "Number", num |-> f, str |-> <<>>]
StringToken(s) == [type |-> "String", num |-> <<>>, str |-> s]

\* what make_token and the tokenize_* functions return, with the cursor they leave
TokOk(tok, idx) == [kind |-> "Ok", tok |-> tok, idx |-> idx, err |-> <<>>]
TokErr(e, idx) == [kind |-> "Err", tok |-> Token("None"), idx |-> idx, err |-> e]
TokPanic(idx) == [kind |-> "Panic", tok |-> Token("None"), idx |-> idx, err |-> <<>>]

\* the match of one keyword: chars[*index] is read without a bounds check
RECURSIVE match_keyword(_, _, _, _, _)
match_keyword(cs, idx, word, k, tok) ==
    IF k > Len(word) THEN TokOk(tok, idx - 1)
    ELSE IF idx >= Len(cs) THEN TokPanic(idx)
    ELSE IF cs[idx + 1] # word[k] THEN TokErr(<<"UnfinishedLiteralValue">>, idx)
    ELSE match_keyword(cs, idx + 1, word, k + 1, tok)

tokenize_null(cs, idx) ==
    match_keyword(cs, idx, Str(<<"n", "u", "l", "l">>), 1, Token("Null"))

tokenize_false(cs, idx) ==
    match_keyword(cs, idx, Str(<<"f", "a", "l", "s", "e">>), 1, Token("False"))

tokenize_true(cs, idx) ==
    match_keyword(cs, idx, Str(<<"t", "r", "u", "e">>), 1, Token("True"))

\* the scan loop of tokenize_float: the text of the number and the cursor,
\* which is left on the first character that is not part of the number
RECURSIVE float_scan(_, _, _, _)
float_scan(cs, idx, unparsed_num, has_decimal) ==
    IF idx >= Len(cs) THEN [idx |-> idx, text |-> unparsed_num]
    ELSE LET ch == cs[idx + 1] IN
         IF is_ascii_digit(ch)
         THEN float_scan(cs, idx + 1, Append(unparsed_num, ch), has_decimal)
         ELSE IF ch = 46 /\ ~has_decimal
         THEN float_scan(cs, idx + 1, Append(unparsed_num, 46), TRUE)
         ELSE [idx |-> idx, text |-> unparsed_num]

\* the decimal value of a run of digits
RECURSIVE digits_value(_)
digits_value(ds) ==
    IF ds = <<>> THEN 0
    ELSE 10 * digits_value(SubSeq(ds, 1, Len(ds) - 1)) + (ds[Len(ds)] - 48)

\* a decimal <<mantissa, scale>> (mantissa / 10^scale) without trailing zeros
RECURSIVE normalize(_, _)
normalize(m, s) ==
    IF s > 0 /\ m % 10 = 0 THEN normalize(m \div 10, s - 1) ELSE <<m, s>>

\* str::parse::<f64> on digits with at most one '.': the value as an exact
\* decimal (the texts of the model are short enough for f64 to tell apart);
\* a text with no digit is a ParseFloatError
parse_f64(text) ==
    LET ds == SelectSeq(text, is_ascii_digit)
        dot == IF \E i \in 1..Len(text) : text[i] = 46
               THEN CHOOSE i \in 1..Len(text) : text[i] = 46
               ELSE Len(text) + 1
        scale == IF dot > Len(text) THEN 0 ELSE Len(text) - dot
    IN IF ds = <<>> THEN [ok |-> FALSE, val |-> <<>>]
       ELSE [ok |-> TRUE, val |-> normalize(digits_value(ds), scale)]

tokenize_float(cs, curr_idx) ==
    LET scan == float_scan(cs, curr_idx, <<>>, FALSE)
        f == parse_f64(scan.text)
    IN IF f.ok THEN TokOk(NumberToken(f.val), scan.idx)
       ELSE TokErr(<<"ParseNumberError">>, scan.idx)

\* tokenize_string with `'\\' => is_escaping = true`: a backslash always
\* escapes what follows, also after an escaped backslash
RECURSIVE string_scan_no_toggle(_, _, _, _)
string_scan_no_toggle(cs, idx, string, is_escaping) ==
    LET i == idx + 1 IN
    IF i >= Len(cs) THEN TokErr(<<"UnclosedQuotes">>, i)
    ELSE LET ch == cs[i + 1] IN
         IF ch = 34 /\ ~is_escaping THEN TokOk(StringToken(string), i)
         ELSE string_scan_no_toggle(cs, i, Append(string, ch), ch = 92)

\* the loop of tokenize_string, entered with the cursor on the opening quote
\* (its debug_assert holds: make_token calls it on a '"' only)
RECURSIVE string_scan(_, _, _, _)
string_scan(cs, idx, string, is_escaping) ==
    LET i == idx + 1 IN
    IF i >= Len(cs) THEN TokErr(<<"UnclosedQuotes">>, i)
    ELSE LET ch == cs[i + 1] IN
         IF ch = 34 /\ ~is_escaping THEN TokOk(StringToken(string), i)
         ELSE string_scan(cs, i, Append(string, ch),
                          IF ch = 92 THEN ~is_escaping ELSE FALSE)

tokenize_string(cs, idx) == string_scan(cs, idx, <<>>, FALSE)

\* the whitespace loop of make_token: the cursor of the first character that
\* is not whitespace, or Len(cs) when the input ends first
RECURSIVE skip_whitespace(_, _)
skip_whitespace(cs, idx) ==
    IF ~is_ascii_whitespace(cs[idx + 1]) THEN idx
    ELSE IF idx + 1 >= Len(cs) THEN idx + 1
    ELSE skip_whitespace(cs, idx + 1)

\* make_token, called with idx < Len(cs)
make_token(cs, idx) ==
    LET i == skip_whitespace(cs, idx) IN
    IF i >= Len(cs) THEN TokErr(<<"UnexpectedEof">>, i)
    ELSE LET ch == cs[i + 1] IN
         CASE ch = 123 -> TokOk(Token("LeftBrace"), i)
           [] ch = 125 -> TokOk(Token("RightBrace"), i)
           [] ch = 91  -> TokOk(Token("LeftBracket"), i)
           [] ch = 93  -> TokOk(Token("RightBracket"), i)
           [] ch = 44  -> TokOk(Token("Comma"), i)
           [] ch = 58  -> TokOk(Token("Colon"), i)
           [] ch = 110 -> tokenize_null(cs, i)
           [] ch = 116 -> tokenize_true(cs, i)
           [] ch = 102 -> tokenize_false(cs, i)
           [] is_ascii_digit(ch) -> tokenize_float(cs, i)
           [] ch = 34  -> tokenize_string(cs, i)
           [] OTHER    -> TokErr(<<"CharNotRecognized", ch>>, i)

\* Result<Vec<Token>, TokenizeError> of tokenize, Running while in its loop
Running == [kind |-> "Running", tokens |-> <<>>, err |-> <<>>]
Ok(ts) == [kind |-> "Ok", tokens |-> ts, err |-> <<>>]
Err(e) == [kind |-> "Err", tokens |-> <<>>, err |-> e]
Panic == [kind |-> "Panic", tokens |-> <<>>, err |-> <<>>]

\* one iteration of the loop of tokenize: make_token, push, index + 1;
\* an error returns at once and the token vector is dropped
TokenizeStep ==
    /\ tok_result = Running
    /\ index < Len(chars)
    /\ LET r == make_token(chars, index) IN
       IF r.kind = "Ok"
       THEN /\ tokens' = Append(tokens, r.tok)
            /\ index' = r.idx + 1
            /\ tok_result' = tok_result
       ELSE /\ tokens' = <<>>
            /\ index' = r.idx
            /\ tok_result' = IF r.kind = "Err" THEN Err(r.err) ELSE Panic
    /\ UNCHANGED chars

\* the loop of tokenize ends: Ok(tokens)
TokenizeReturn ==
    /\ tok_result = Running
    /\ index >= Len(chars)
    /\ tok_result' = Ok(tokens)
    /\ UNCHANGED <<chars, index, tokens>>

----------------------------------------------------------------------------
(* The shared unescape routine *)

\* char::to_digit(16): the value of a hexadecimal digit, -1 for None
to_digit16(c) ==
    IF c \in 48..57 THEN c - 48
    ELSE IF c \in 97..102 THEN c - 97 + 10
    ELSE IF c \in 65..70 THEN c - 65 + 10
    ELSE -1

\* the powers of 16 with the digits weighted in the opposite order, as
\* (16u32).pow(i) would
pow16_little_endian(e) ==
    CASE e = 0 -> 4096 [] e = 1 -> 256 [] e = 2 -> 16 [] OTHER -> 1

\* 16u32.pow(e) for e in 0..3
RECURSIVE pow16(_)
pow16(e) == IF e = 0 THEN 1 ELSE 16 * pow16(e - 1)

\* char::from_u32: None for a surrogate and above U+10FFFF
is_scalar_value(n) == n \in 0..1114111 /\ n \notin 55296..57343

\* the state of the loop of unescape_string
UState(pos, output, is_escaping, kind, err) ==
    [pos |-> pos, output |-> output, is_escaping |-> is_escaping,
     kind |-> kind, err |-> err]

\* the `for i in 0..4` loop of the 'u' arm and the push that follows it;
\* pos chars have been yielded, i digits read
RECURSIVE read_hex(_, _, _, _, _)
read_hex(input, pos, output, i, sum) ==
    IF i = 4
    THEN IF is_scalar_value(sum)
         THEN UState(pos, Append(output, sum), FALSE, "Running", <<>>)
         ELSE UState(pos, output, TRUE, "Err", <<"InvalidHexValue">>)
    ELSE IF pos >= Len(input)
    THEN UState(pos, output, TRUE, "Err", <<"UnfinishedEscape">>)
    ELSE IF to_digit16(input[pos + 1]) < 0
    THEN UState(pos + 1, output, TRUE, "Err", <<"InvalidHexValue">>)
    ELSE read_hex(input, pos + 1, output, i + 1,
                  sum + pow16(3 - i) * to_digit16(input[pos + 1]))

\* what an escaped character other than 'u' pushes
escaped_char(next_char) ==
    CASE next_char = 34  -> 34
      [] next_char = 92  -> 92
      [] next_char = 98  -> 8
      [] next_char = 102 -> 18
      [] next_char = 110 -> 10
      [] next_char = 114 -> 13
      [] next_char = 116 -> 9
      [] OTHER           -> next_char

\* one iteration of `while let Some(next_char) = chars.next()`, pos < Len(input)
unescape_step(input, pos, output, is_escaping) ==
    LET next_char == input[pos + 1] IN
    IF is_escaping
    THEN IF next_char = 117
         THEN read_hex(input, pos + 1, output, 0, 0)
         ELSE UState(pos + 1, Append(output, escaped_char(next_char)), FALSE,
                     "Running", <<>>)
    ELSE IF next_char = 92
    THEN UState(pos + 1, output, TRUE, "Running", <<>>)
    ELSE UState(pos + 1, Append(output, next_char), FALSE, "Running", <<>>)

\* unescape_string: the loop run to its end
RECURSIVE unescape_loop(_, _, _, _)
unescape_loop(input, pos, output, is_escaping) ==
    IF pos >= Len(input) THEN UState(pos, output, is_escaping, "Ok", <<>>)
    ELSE LET s == unescape_step(input, pos, output, is_escaping) IN
         IF s.kind = "Err" THEN s
         ELSE unescape_loop(input, s.pos, s.output, s.is_escaping)

unescape_string(input) == unescape_loop(input, 0, <<>>, FALSE)

\* Result<String, TokenParseError> of unescape_string
URunning == [kind |-> "Running", out |-> <<>>, err |-> <<>>]
UOk(s) == [kind |-> "Ok", out |-> s, err |-> <<>>]
UErr(e) == [kind |-> "Err", out |-> <<>>, err |-> e]

\* one iteration of the loop of unescape_string
UnescapeStep ==
    /\ u_result = URunning
    /\ u_pos < Len(u_input)
    /\ LET s == unescape_step(u_input, u_pos, u_output, u_escaping) IN
       /\ u_pos' = s.pos
       /\ u_output' = s.output
       /\ u_escaping' = s.is_escaping
       /\ u_result' = IF s.kind = "Err" THEN UErr(s.err) ELSE u_result
    /\ UNCHANGED u_input

\* the iterator is exhausted: Ok(output)
UnescapeReturn ==
    /\ u_result = URunning
    /\ u_pos >= Len(u_input)
    /\ u_result' = UOk(u_output)
    /\ UNCHANGED <<u_input, u_pos, u_output, u_escaping>>

----------------------------------------------------------------------------
(* The parser *)

\* enum Value
NullValue == [type |-> "Null"]
BooleanValue(b) == [type |-> "Boolean", b |-> b]
NumberValue(n) == [type |-> "Number", n |-> n]
StringValue(s) == [type |-> "String", s |-> s]
ArrayValue(items) == [type |-> "Array", items |-> items]
ObjectValue(map) == [type |-> "Object", map |-> map]

\* HashMap::insert: a later duplicate key overwrites
map_insert(map, key, value) ==
    [k \in (DOMAIN map) \cup {key} |-> IF k = key THEN value ELSE map[k]]

\* ParseResult of the outermost parse_tokens, running while it has not returned
PRunning == [kind |-> "Running", value |-> NullValue, err |-> ""]
POk(v) == [kind |-> "Ok", value |-> v, err |-> ""]
PErr(e) == [kind |-> "Err", value |-> NullValue, err |-> e]
PPanic == [kind |-> "Panic", value |-> NullValue, err |-> ""]

\* a parse_array or parse_object call in progress: the cursor it was called
\* with, its array or map so far, and the key whose value is being parsed
Frame(fn, start, acc, key) == [fn |-> fn, start |-> start, acc |-> acc, key |-> key]

is_scalar_token(token) ==
    token.type \in {"Null", "False", "True", "Number", "String"}

\* an error or a panic leaves every call in progress: `?` in each caller
Abort(result) ==
    /\ p_result' = result
    /\ p_stack' = <<>>
    /\ p_pc' = "done"

\* a parse_tokens call returns Ok(value) to the call in progress stack[Len(stack)],
\* which pushes it or inserts it; or to the caller of the outermost call
Return(stack, value) ==
    IF stack = <<>>
    THEN /\ p_result' = POk(value)
         /\ p_stack' = <<>>
         /\ p_pc' = "done"
    ELSE LET top == stack[Len(stack)]
             rest == SubSeq(stack, 1, Len(stack) - 1)
         IN /\ p_result' = p_result
            /\ IF top.fn = "parse_array"
               THEN /\ p_stack' = Append(rest, Frame(top.fn, top.start,
                                                     Append(top.acc, value), top.key))
                    /\ p_pc' = "array_after"
               ELSE /\ p_stack' = Append(rest, Frame(top.fn, top.start,
                                                     map_insert(top.acc, top.key, value),
                                                     top.key))
                    /\ p_pc' = "object_after"

\* the scalar Value of a scalar token; a String goes through parse_string
scalar_value(token) ==
    CASE token.type = "Null"   -> POk(NullValue)
      [] token.type = "False"  -> POk(BooleanValue(FALSE))
      [] token.type = "True"   -> POk(BooleanValue(TRUE))
      [] token.type = "Number" -> POk(NumberValue(token.num))
      [] token.type = "String" ->
            LET unescaped == unescape_string(token.str) IN
            IF unescaped.kind = "Ok" THEN POk(StringValue(unescaped.output))
            ELSE PErr(unescaped.err[1])

\* parse_tokens is entered: tokens[*index] is read and dispatched on
ParseTokens ==
    /\ p_pc = "parse_tokens"
    /\ IF p_index >= Len(p_tokens)
       THEN Abort(PPanic) /\ UNCHANGED p_index
       ELSE LET token == p_tokens[p_index + 1] IN
            IF is_scalar_token(token)
            THEN /\ p_index' = p_index + 1
                 /\ LET r == scalar_value(token) IN
                    IF r.kind = "Ok" THEN Return(p_stack, r.value) ELSE Abort(r)
            ELSE IF token.type = "LeftBracket"
            THEN /\ p_stack' = Append(p_stack, Frame("parse_array", p_index, <<>>, <<>>))
                 /\ p_pc' = "array_loop"
                 /\ UNCHANGED <<p_index, p_result>>
            ELSE IF token.type = "LeftBrace"
            THEN /\ p_stack' = Append(p_stack, Frame("parse_object", p_index, <<>>, <<>>))
                 /\ p_pc' = "object_loop"
                 /\ UNCHANGED <<p_index, p_result>>
            ELSE Abort(PErr("ExpectedValue")) /\ UNCHANGED p_index
    /\ UNCHANGED p_tokens

\* parse_array, top of the loop: consume the LeftBracket or Comma, then either
\* break on a RightBracket or parse a value
ArrayLoop ==
    /\ p_pc = "array_loop"
    /\ p_index' = p_index + 1
    /\ IF p_index + 1 >= Len(p_tokens) THEN Abort(PPanic)
       ELSE /\ p_pc' = IF p_tokens[p_index + 2].type = "RightBracket"
                       THEN "array_end" ELSE "parse_tokens"
            /\ UNCHANGED <<p_stack, p_result>>
    /\ UNCHANGED p_tokens

\* parse_array, after a value was pushed: the token that follows it
ArrayAfterValue ==
    /\ p_pc = "array_after"
    /\ IF p_index >= Len(p_tokens) THEN Abort(PPanic)
       ELSE LET token == p_tokens[p_index + 1] IN
            IF token.type = "Comma"
            THEN p_pc' = "array_loop" /\ UNCHANGED <<p_stack, p_result>>
            ELSE IF token.type = "RightBracket"
            THEN p_pc' = "array_end" /\ UNCHANGED <<p_stack, p_result>>
            ELSE Abort(PErr("ExpectedComma"))
    /\ UNCHANGED <<p_tokens, p_index>>

\* parse_array without the `*index += 1` that consumes the RightBracket
ArrayReturn_NoConsume ==
    /\ p_pc = "array_end"
    /\ p_index' = p_index
    /\ Return(SubSeq(p_stack, 1, Len(p_stack) - 1),
              ArrayValue(p_stack[Len(p_stack)].acc))
    /\ UNCHANGED p_tokens

\* parse_array, after the loop: consume the RightBracket, Ok(Value::Array(array))
ArrayReturn ==
    /\ p_pc = "array_end"
    /\ p_index' = p_index + 1
    /\ Return(SubSeq(p_stack, 1, Len(p_stack) - 1),
              ArrayValue(p_stack[Len(p_stack)].acc))
    /\ UNCHANGED p_tokens

\* parse_object, top of the loop: consume the LeftBrace or Comma, then either
\* break on a RightBrace or read the key, the Colon, and unescape the key
ObjectLoop ==
    /\ p_pc = "object_loop"
    /\ LET i == p_index + 1
           top == p_stack[Len(p_stack)]
           rest == SubSeq(p_stack, 1, Len(p_stack) - 1)
       IN IF i >= Len(p_tokens) THEN p_index' = i /\ Abort(PPanic)
          ELSE IF p_tokens[i + 1].type = "RightBrace"
          THEN /\ p_index' = i
               /\ p_pc' = "object_end"
               /\ UNCHANGED <<p_stack, p_result>>
          ELSE IF p_tokens[i + 1].type # "String"
          THEN p_index' = i /\ Abort(PErr("ExpectedProperty"))
          ELSE IF i + 1 >= Len(p_tokens) THEN p_index' = i + 1 /\ Abort(PPanic)
          ELSE IF p_tokens[i + 2].type # "Colon"
          THEN p_index' = i + 1 /\ Abort(PErr("ExpectedColon"))
          ELSE LET key == unescape_string(p_tokens[i + 1].str) IN
               /\ p_index' = i + 2
               /\ IF key.kind = "Ok"
                  THEN /\ p_stack' = Append(rest, Frame(top.fn, top.start, top.acc,
                                                        key.output))
                       /\ p_pc' = "parse_tokens"
                       /\ UNCHANGED p_result
                  ELSE Abort(PErr(key.err[1]))
    /\ UNCHANGED p_tokens

\* parse_object with `_ => {}` for its last arm: any token but a RightBrace
\* goes on to the next key
ObjectAfterValue_NoCommaCheck ==
    /\ p_pc = "object_after"
    /\ IF p_index >= Len(p_tokens) THEN Abort(PPanic)
       ELSE LET token == p_tokens[p_index + 1] IN
            IF token.type = "RightBrace"
            THEN p_pc' = "object_end" /\ UNCHANGED <<p_stack, p_result>>
            ELSE p_pc' = "object_loop" /\ UNCHANGED <<p_stack, p_result>>
    /\ UNCHANGED <<p_tokens, p_index>>

\* parse_object, after a value was inserted: the token that follows it
ObjectAfterValue ==
    /\ p_pc = "object_after"
    /\ IF p_index >= Len(p_tokens) THEN Abort(PPanic)
       ELSE LET token == p_tokens[p_index + 1] IN
            IF token.type = "Comma"
            THEN p_pc' = "object_loop" /\ UNCHANGED <<p_stack, p_result>>
            ELSE IF token.type = "RightBrace"
            THEN p_pc' = "object_end" /\ UNCHANGED <<p_stack, p_result>>
            ELSE Abort(PErr("ExpectedComma"))
    /\ UNCHANGED <<p_tokens, p_index>>

\* parse_object, after the loop: consume the RightBrace, Ok(Value::Object(map))
ObjectReturn ==
    /\ p_pc = "object_end"
    /\ p_index' = p_index + 1
    /\ Return(SubSeq(p_stack, 1, Len(p_stack) - 1),
              ObjectValue(p_stack[Len(p_stack)].acc))
    /\ UNCHANGED p_tokens

----------------------------------------------------------------------------
(* Inputs and specifications *)

\* the sequences over S of at most n elements
SeqsUpTo(S, n) == UNION {[1..k -> S] : k \in 0..n}

\* the concatenations of at most n pieces of P
RECURSIVE Concats(_, _)
Concats(P, n) ==
    IF n = 0 THEN {<<>>}
    ELSE LET shorter == Concats(P, n - 1)
         IN shorter \cup {s \o q : s \in shorter, q \in P}

\* what tokenizer inputs are made of: every character class make_token
\* dispatches on, the three keywords and proper prefixes of them
TokPieces ==
    {Str(<<c>>) : c \in {" ", "\n", "{", "}", "[", "]", ",", ":", "1", "2", ".",
                         "\"", "x", "n", "t", "f"}}
    \cup {Str(<<"n", "u", "l", "l">>), Str(<<"n", "u">>),
          Str(<<"t", "r", "u", "e">>), Str(<<"t", "r", "u">>),
          Str(<<"f", "a", "l", "s", "e">>), Str(<<"f", "a", "l", "s">>)}

\* the characters of the string-literal specification
StrAlphabet == {Ord(c) : c \in {"\"", "\\", "k", ",", " ", "1"}}

\* the characters of the single-character-escape specification
EscAlphabet == {Ord(c) : c \in {"\\", "\"", "b", "f", "n", "r", "t", "q"}}

\* the characters of the \u-escape specification
HexAlphabet == {Ord(c) : c \in {"\\", "u", "0", "1", "4", "D"}}

\* the tokens of the parser's inputs
ParserTokens ==
    {Token(t) : t \in {"LeftBracket", "RightBracket", "LeftBrace", "RightBrace",
                       "Comma", "Colon", "Null"}}
    \cup {NumberToken(<<1, 0>>), StringToken(Str(<<"a">>)),
          StringToken(Str(<<"\\", "u">>))}

\* the part of the program a specification does not run
NoTokenize == chars = <<>> /\ index = 0 /\ tokens = <<>> /\ tok_result = Ok(<<>>)
NoUnescape ==
    /\ u_input = <<>> /\ u_pos = 0 /\ u_output = <<>> /\ u_escaping = FALSE
    /\ u_result = UOk(<<>>)
NoParse ==
    /\ p_tokens = <<>> /\ p_index = 0 /\ p_stack = <<>> /\ p_pc = "done"
    /\ p_result = [kind |-> "NotCalled", value |-> NullValue, err |-> ""]

\* tokenize(input) is called
TokenizeCalled(inputs) ==
    /\ chars \in inputs
    /\ index = 0
    /\ tokens = <<>>
    /\ tok_result = Running

\* unescape_string(input) is called
UnescapeCalled(inputs) ==
    /\ u_input \in inputs
    /\ u_pos = 0
    /\ u_output = <<>>
    /\ u_escaping = FALSE
    /\ u_result = URunning

\* parse_tokens(tokens, &mut 0) is called on a slice that has a token 0
ParseCalled(inputs) ==
    /\ p_tokens \in inputs
    /\ p_tokens # <<>>
    /\ p_index = 0
    /\ p_stack = <<>>
    /\ p_pc = "parse_tokens"
    /\ p_result = PRunning

TokInit == TokenizeCalled(Concats(TokPieces, MaxPieces)) /\ NoUnescape /\ NoParse
StrInit == TokenizeCalled(SeqsUpTo(StrAlphabet, MaxStrLen)) /\ NoUnescape /\ NoParse
EscInit == UnescapeCalled(SeqsUpTo(EscAlphabet, MaxEscLen)) /\ NoTokenize /\ NoParse
HexInit == UnescapeCalled(SeqsUpTo(HexAlphabet, MaxHexLen)) /\ NoTokenize /\ NoParse
ParseInit == ParseCalled(SeqsUpTo(ParserTokens, MaxTokens)) /\ NoTokenize /\ NoUnescape

TokNext ==
    \/ TokenizeStep /\ UNCHANGED <<u_vars, p_vars>>
    \/ TokenizeReturn /\ UNCHANGED <<u_vars, p_vars>>

UnescapeNext ==
    \/ UnescapeStep /\ UNCHANGED <<tok_vars, p_vars>>
    \/ UnescapeReturn /\ UNCHANGED <<tok_vars, p_vars>>

ParseNext ==
    \/ ParseTokens /\ UNCHANGED <<tok_vars, u_vars>>
    \/ ArrayLoop /\ UNCHANGED <<tok_vars, u_vars>>
    \/ ArrayAfterValue /\ UNCHANGED <<tok_vars, u_vars>>
    \/ ArrayReturn /\ UNCHANGED <<tok_vars, u_vars>>
    \/ ObjectLoop /\ UNCHANGED <<tok_vars, u_vars>>
    \/ ObjectAfterValue /\ UNCHANGED <<tok_vars, u_vars>>
    \/ ObjectReturn /\ UNCHANGED <<tok_vars, u_vars>>

\* tokenize on inputs made of pieces
SpecTok == TokInit /\ [][TokNext]_vars
\* tokenize on inputs over the characters of string literals
SpecStr == StrInit /\ [][TokNext]_vars
\* unescape_string on raw texts with single-character escapes
SpecEsc == EscInit /\ [][UnescapeNext]_vars
\* unescape_string on raw texts with \u escapes
SpecHex == HexInit /\ [][UnescapeNext]_vars
\* parse_tokens on token slices
SpecParse == ParseInit /\ [][ParseNext]_vars

----------------------------------------------------------------------------
(* Claims about tokenize *)

\* the characters a token takes in the input, from the first one at cursor
\* start: one for a structural character, the keyword's length, the quotes and
\* what is between them, the longest run of digits with at most one '.'
UnitLength(cs, start, tok) ==
    CASE tok.type = "Null"   -> 4
      [] tok.type = "True"   -> 4
      [] tok.type = "False"  -> 5
      [] tok.type = "String" -> Len(tok.str) + 2
      [] tok.type = "Number" -> Len(float_scan(cs, start, <<>>, FALSE).text)
      [] OTHER               -> 1

\* one token per lexical unit, each unit starting at the first character that
\* is not whitespace after the unit before it; a unit that is no token gives
\* "None"
RECURSIVE LexicalUnits(_, _)
LexicalUnits(cs, i) ==
    IF i >= Len(cs) \/ skip_whitespace(cs, i) >= Len(cs) THEN <<>>
    ELSE LET start == skip_whitespace(cs, i)
             r == make_token(cs, start)
         IN IF r.kind # "Ok" THEN <<Token("None")>>
            ELSE <<r.tok>> \o LexicalUnits(cs, start + UnitLength(cs, start, r.tok))

\* C1: whenever tokenize returns Ok, the tokens are the lexical units of the
\* input, one token each, in order, no character that is not whitespace
\* skipped between two of them; `1,2` gives [Number 1, Comma, Number 2].
C1_TokensAreTheLexicalUnits ==
    tok_result.kind = "Ok" => tok_result.tokens = LexicalUnits(chars, 0)

\* the input is a proper, non-empty prefix of a keyword
KeywordCutShort(cs) ==
    \E word \in {Str(<<"n", "u", "l", "l">>), Str(<<"t", "r", "u", "e">>),
                 Str(<<"f", "a", "l", "s", "e">>)} :
        /\ cs # <<>>
        /\ Len(cs) < Len(word)
        /\ cs = SubSeq(word, 1, Len(cs))

\* C3: tokenize is total: it never reads chars at or past the end (a panic),
\* and an input that ends in the middle of a keyword is
\* Err(UnfinishedLiteralValue).
C3_TokenizeIsTotal ==
    /\ tok_result.kind # "Panic"
    /\ (KeywordCutShort(chars) /\ tok_result.kind # "Running")
           => tok_result = Err(<<"UnfinishedLiteralValue">>)

\* C10: an input that ends in ASCII whitespace is never Ok; a non-empty input
\* of whitespace alone is Err(UnexpectedEof); the empty input is Ok([]).
C10_TrailingWhitespaceIsEof ==
    tok_result.kind # "Running" =>
        /\ (chars # <<>> /\ is_ascii_whitespace(chars[Len(chars)]))
               => tok_result.kind # "Ok"
        /\ (chars # <<>> /\ \A i \in 1..Len(chars) : is_ascii_whitespace(chars[i]))
               => tok_result = Err(<<"UnexpectedEof">>)
        /\ chars = <<>> => tok_result = Ok(<<>>)

\* the backslashes that immediately precede cursor j, after the opening quote q
RECURSIVE BackslashRun(_, _, _)
BackslashRun(cs, q, j) ==
    IF j - 1 > q /\ cs[j] = 92 THEN 1 + BackslashRun(cs, q, j - 1) ELSE 0

\* the cursors of the quotes after the opening quote q that are not escaped
ClosingQuotes(cs, q) ==
    {j \in (q + 1)..(Len(cs) - 1) : cs[j + 1] = 34 /\ BackslashRun(cs, q, j) % 2 = 0}

Least(S) == CHOOSE x \in S : \A y \in S : x <= y

\* C7: when make_token dispatches on a quote at cursor q, the String token
\* holds the raw characters between q and the first later quote that is not
\* preceded by an odd run of backslashes, the cursor is left on that quote
\* (and the loop of tokenize steps past it), and with no such quote the result
\* is Err(UnclosedQuotes).
C7_StringTokenIsRawText ==
    [][(/\ tok_result = Running
        /\ index < Len(chars)
        /\ skip_whitespace(chars, index) < Len(chars)
        /\ chars[skip_whitespace(chars, index) + 1] = 34)
       => LET q == skip_whitespace(chars, index)
              closing == ClosingQuotes(chars, q)
          IN IF closing = {}
             THEN tok_result' = Err(<<"UnclosedQuotes">>)
             ELSE /\ tok_result' = Running
                  /\ tokens' = Append(tokens,
                                      StringToken(SubSeq(chars, q + 2, Least(closing))))
                  /\ make_token(chars, index).idx = Least(closing)
                  /\ index' = Least(closing) + 1
      ]_vars

\* C7's case: in `"\""` the escaped quote does not close the string and is
\* part of the payload, backslash included
C7_Witness ==
    /\ tok_result.kind = "Ok"
    /\ chars = Str(<<"\"", "\\", "\"", "\"">>)
    /\ tok_result.tokens = <<StringToken(Str(<<"\\", "\"">>))>>

----------------------------------------------------------------------------
(* Claims about unescape_string *)

\* the JSON meaning of a single-character escape
JsonEscape(c) ==
    CASE c = 34  -> 34
      [] c = 92  -> 92
      [] c = 98  -> 8
      [] c = 102 -> 12
      [] c = 110 -> 10
      [] c = 114 -> 13
      [] c = 116 -> 9
      [] OTHER   -> c

\* the decoding of a raw text whose escapes are single characters
RECURSIVE JsonDecode(_)
JsonDecode(raw) ==
    IF raw = <<>> THEN <<>>
    ELSE IF raw[1] # 92 THEN <<raw[1]>> \o JsonDecode(Tail(raw))
    ELSE IF Len(raw) = 1 THEN <<>>
    ELSE <<JsonEscape(raw[2])>> \o JsonDecode(Tail(Tail(raw)))

\* C5: every single-character escape decodes to its JSON meaning (\f is form
\* feed, U+000C), any other escaped character and every character outside an
\* escape is copied, the backslash is not.
C5_SingleCharacterEscapes ==
    u_result.kind = "Ok" => u_result.out = JsonDecode(u_input)

IsHex(c) == c \in (48..57) \cup (65..70) \cup (97..102)

HexValue(c) ==
    IF c \in 48..57 THEN c - 48 ELSE IF c \in 65..70 THEN c - 55 ELSE c - 87

\* C6: an active `\u` at the iterator reads the four characters that follow;
\* the first of them, left to right, that is missing gives UnfinishedEscape,
\* that is no hex digit gives InvalidHexValue; four hex digits h3 h2 h1 h0
\* append the character 4096*h3 + 256*h2 + 16*h1 + h0 and scanning goes on
\* after h0, unless that is a surrogate, which gives InvalidHexValue.
C6_UnicodeEscape ==
    [][(/\ u_result = URunning
        /\ u_escaping
        /\ u_pos < Len(u_input)
        /\ u_input[u_pos + 1] = 117)
       => LET bad == {j \in 1..4 : \/ u_pos + 1 + j > Len(u_input)
                                   \/ ~IsHex(u_input[u_pos + 1 + j])}
              h(j) == HexValue(u_input[u_pos + 1 + j])
              code == 4096 * h(1) + 256 * h(2) + 16 * h(3) + h(4)
          IN IF bad # {}
             THEN u_result' = IF u_pos + 1 + Least(bad) > Len(u_input)
                              THEN UErr(<<"UnfinishedEscape">>)
                              ELSE UErr(<<"InvalidHexValue">>)
             ELSE IF code \in 55296..57343
             THEN u_result' = UErr(<<"InvalidHexValue">>)
             ELSE /\ u_result' = URunning
                  /\ u_output' = Append(u_output, code)
                  /\ u_pos' = u_pos + 5
                  /\ ~u_escaping'
      ]_vars

\* C6's case: the raw text `\u0041` is "A"
C6_Witness ==
    /\ u_input = Str(<<"\\", "u", "0", "0", "4", "1">>)
    /\ u_result = UOk(Str(<<"A">>))

----------------------------------------------------------------------------
(* Claims about parse_tokens *)

\* C2: no parse that returns Ok consumed a Comma immediately followed by a
\* RightBracket or a RightBrace: a trailing comma is an error.
C2_NoTrailingComma ==
    p_result.kind = "Ok" =>
        \A i \in 1..(p_index - 1) :
            ~(/\ p_tokens[i].type = "Comma"
              /\ p_tokens[i + 1].type \in {"RightBracket", "RightBrace"})

\* C4: every token read is at a cursor below the length of the slice (no
\* panic), so a slice that ends inside an array or object is a ParseError.
C4_TokenReadsInRange ==
    p_result.kind # "Panic"

\* C8: in parse_object, at a key position: a token that is neither RightBrace
\* nor a String is ExpectedProperty; a String followed by a token that is no
\* Colon is ExpectedColon; after a value, a token that is neither Comma nor
\* RightBrace is ExpectedComma.
C8_ObjectErrors ==
    [][/\ (p_pc = "object_loop" /\ p_index + 1 < Len(p_tokens))
           => LET key == p_tokens[p_index + 2] IN
              /\ key.type \notin {"RightBrace", "String"}
                     => p_result' = PErr("ExpectedProperty")
              /\ (/\ key.type = "String"
                  /\ p_index + 2 < Len(p_tokens)
                  /\ p_tokens[p_index + 3].type # "Colon")
                     => p_result' = PErr("ExpectedColon")
       /\ (/\ p_pc = "object_after"
           /\ p_index < Len(p_tokens)
           /\ p_tokens[p_index + 1].type \notin {"Comma", "RightBrace"})
           => p_result' = PErr("ExpectedComma")
      ]_vars

\* C8's case: the tokens of `{"a" 1}`
C8_Witness ==
    /\ p_tokens = <<Token("LeftBrace"), StringToken(Str(<<"a">>)),
                    NumberToken(<<1, 0>>), Token("RightBrace")>>
    /\ p_result = PErr("ExpectedColon")

\* the cursor of the token that closes the container opened before cursor j,
\* depth containers being open; -1 when the slice ends first
RECURSIVE CloseScan(_, _, _)
CloseScan(ts, j, depth) ==
    IF j >= Len(ts) THEN -1
    ELSE LET d == CASE ts[j + 1].type \in {"LeftBracket", "LeftBrace"} -> depth + 1
                    [] ts[j + 1].type \in {"RightBracket", "RightBrace"} -> depth - 1
                    [] OTHER -> depth
         IN IF d = 0 THEN j ELSE CloseScan(ts, j + 1, d)

\* the cursor just past the value that starts at cursor p
ValueEnd(ts, p) ==
    IF is_scalar_token(ts[p + 1]) THEN p + 1 ELSE CloseScan(ts, p, 0) + 1

\* C9: the cursor never decreases, and whenever a parse_tokens call entered at
\* cursor p returns Ok the cursor is just past the value: p + 1 for a scalar,
\* one past the matching RightBracket or RightBrace for an array or object,
\* and at most the length of the slice.
C9_CursorOnlyForward ==
    [][/\ p_index' >= p_index
       /\ (/\ p_pc = "parse_tokens"
           /\ p_index < Len(p_tokens)
           /\ is_scalar_token(p_tokens[p_index + 1])
           /\ p_result'.kind \notin {"Err", "Panic"})
           => /\ p_index' = p_index + 1
              /\ p_index' <= Len(p_tokens)
       /\ p_pc \in {"array_end", "object_end"}
           => LET p == p_stack[Len(p_stack)].start IN
              /\ p_result'.kind \in {"Running", "Ok"}
              /\ p_index' = ValueEnd(p_tokens, p)
              /\ p_index' <= Len(p_tokens)
              /\ p_tokens[p_index'].type =
                     IF p_tokens[p + 1].type = "LeftBracket"
                     THEN "RightBracket" ELSE "RightBrace"
       /\ p_result'.kind = "Ok" => p_index' = ValueEnd(p_tokens, 0)
      ]_vars

\* C9's case: a nested container was parsed to the end of the slice
C9_Witness ==
    /\ p_result.kind = "Ok"
    /\ p_tokens[1].type = "LeftBracket"
    /\ Len(p_tokens) >= 4
    /\ p_tokens[2].type \in {"LeftBracket", "LeftBrace"}
    /\ p_index = Len(p_tokens)


====
